---------------------------- MODULE Spec2Model ----------------------------
(***************************************************************************)
(* Verification model of the go-mail middlewares (wneessen/go-mail-        *)
(* middleware): the DKIM signer configuration (dkim/config.go), the DKIM   *)
(* middleware and its header scanner (dkim/dkim.go), the middleware chain  *)
(* of a mail.Msg the middlewares are attached to, the subject              *)
(* capitalization middleware (subject_capitalize.go), the OpenPGP          *)
(* middleware (openpgp/config.go, openpgp/helper.go) and the Logger        *)
(* (log/log.go).                                                           *)
(*                                                                         *)
(* Strings that the code only stores and compares are model values         *)
(* (TLA+ strings); texts the code scans byte by byte are sequences of      *)
(* one-byte strings.                                                       *)
(***************************************************************************)
EXTENDS Integers, Sequences, FiniteSets, TLC

VARIABLES
    sc,      \* the *SignerConfig the model follows (dkim/config.go)
    err,     \* the error the last call returned ("nil" = no error)
    call,    \* the last call: its name, its arguments, sc before it
    mw,      \* the *Middleware the last call returned, if it was newMiddleware
    lines,   \* the lines a scanned text was written from (one record per line)
    res,     \* what extractDKIMHeader returned for that text, once it has run
    msg,     \* the *mail.Msg: its headers, body, attachments and middlewares
    out,     \* what the last msg.WriteTo wrote, and whether it panicked
    trace,   \* the Handle calls of the last msg.WriteTo, in order
    pcfg,    \* the openpgp.NewConfig call: its keys, the *Config and the error
    pmsg,    \* the *mail.Msg the OpenPGP middleware works on
    pcall,   \* the last call into the OpenPGP middleware and what it returned
    lg       \* the log.Logger: its prefix, its level and what it has written

cfgVars == <<sc, err, call, mw>>
scanVars == <<lines, res>>
msgVars == <<msg, out, trace>>
pgpVars == <<pcfg, pmsg, pcall>>
logVars == <<lg>>

vars == <<sc, err, call, mw, lines, res, msg, out, trace, pcfg, pmsg, pcall, lg>>

-----------------------------------------------------------------------------
(* Bounds *)

\* longest option list handed to NewConfig
MaxOpts == 1
\* longest header field list handed to WithHeaderFields / SetHeaderFields
MaxFields == 2
\* longest HeaderFields list the model follows (appends beyond it are not taken)
MaxHeaderFields == 3

-----------------------------------------------------------------------------
(* Values *)

NoErr == "nil"

\* crypto.Hash values the tests use; "none" is the zero value crypto.Hash(0)
Hashes == {"none", "MD5", "SHA-1", "SHA-256"}

\* dkim.Canonicalization is a string type; "" is its zero value
Canos == {"", "simple", "relaxed", "invalid"}

Domains == {"", "test.tld"}
Selectors == {"", "mail"}

\* header field names handed to the HeaderFields option
FieldNames == {"From", "fROM", "To"}

\* crypto.Signer implementations handed to newMiddleware
KeyTypes == {"RSA", "Ed25519", "ECDSA"}

\* all sequences over S of length lo..hi
SeqsOf(S, lo, hi) == UNION {[1..n -> S] : n \in lo..hi}

FieldLists == SeqsOf(FieldNames, 0, MaxFields)

-----------------------------------------------------------------------------
(* dkim/config.go *)

\* Unicode simple case folding, restricted to the letters of FieldNames
FoldCase(s) ==
    CASE s \in {"From", "fROM", "from"} -> "from"
      [] s \in {"To", "to"} -> "to"
      [] OTHER -> s

\* strings.EqualFold
EqualFold(a, b) == FoldCase(a) = FoldCase(b)

\* variant of HashAlgoIsValid that also admits SHA-1
HashAlgoIsValidSHA1(ha) == ha \in {"SHA-256", "SHA-1"}
\* func (sc *SignerConfig) HashAlgoIsValid(ha crypto.Hash) bool
HashAlgoIsValid(ha) == ha = "SHA-256"

\* func (sc *SignerConfig) CanonicalizationIsValid(c dkim.Canonicalization) bool
CanonicalizationIsValid(c) == c \in {"simple", "relaxed"}

\* The loop shared by WithHeaderFields and SetHeaderFields: every field is
\* appended to sc.HeaderFields while the list is scanned for "From".
AppendFields(hfs, fl) == hfs \o fl

\* variant of HasFrom in which hf is overwritten by every field
HasFromLast(fl) == Len(fl) > 0 /\ EqualFold(fl[Len(fl)], "From")
\* hf: some field of the list equals "From" ignoring case
HasFrom(fl) == \E i \in 1..Len(fl) : EqualFold(fl[i], "From")

ErrNoFrom == "the \"From\" field is required when a HeaderFields list is provided"
ErrInvalidHashAlgo == "unsupported hashing algorithm"
ErrInvalidCanonicalization == "unsupported canonicalization type"

\* fmt.Errorf("failed to apply option: %w", err)
WrapOptionErr(e) ==
    CASE e = ErrNoFrom -> "failed to apply option: the \"From\" field is required when a HeaderFields list is provided"
      [] e = ErrInvalidHashAlgo -> "failed to apply option: unsupported hashing algorithm"
      [] e = ErrInvalidCanonicalization -> "failed to apply option: unsupported canonicalization type"
      [] OTHER -> e

\* An option or setter yields the config after it and the error it returns.
Res(c, e) == [sc |-> c, err |-> e]

\* func WithHashAlgo(ha) / func (sc *SignerConfig) SetHashAlgo(ha)
SetHashAlgo(c, ha) ==
    IF ~HashAlgoIsValid(ha) THEN Res(c, ErrInvalidHashAlgo)
    ELSE Res([c EXCEPT !.HashAlgo = ha], NoErr)

\* func WithHeaderCanonicalization(c) / SetHeaderCanonicalization(c)
SetHeaderCanonicalization(c, cano) ==
    IF ~CanonicalizationIsValid(cano) THEN Res(c, ErrInvalidCanonicalization)
    ELSE Res([c EXCEPT !.CanonicalizationHeader = cano], NoErr)

\* func WithBodyCanonicalization(c) / SetBodyCanonicalization(c)
SetBodyCanonicalization(c, cano) ==
    IF ~CanonicalizationIsValid(cano) THEN Res(c, ErrInvalidCanonicalization)
    ELSE Res([c EXCEPT !.CanonicalizationBody = cano], NoErr)

\* func WithHeaderFields(fl...) / func (sc *SignerConfig) SetHeaderFields(fl...)
SetHeaderFields(c, fl) ==
    LET c2 == [c EXCEPT !.HeaderFields = AppendFields(c.HeaderFields, fl)]
    IN  IF ~HasFrom(fl) THEN Res(c2, ErrNoFrom) ELSE Res(c2, NoErr)

\* The SignerOption values: the closure's kind and its captured argument.
Options ==
    {[kind |-> "nil", val |-> "", fl |-> <<>>]}
    \cup {[kind |-> "WithHashAlgo", val |-> h, fl |-> <<>>] : h \in Hashes}
    \cup {[kind |-> "WithHeaderCanonicalization", val |-> c, fl |-> <<>>] : c \in Canos}
    \cup {[kind |-> "WithBodyCanonicalization", val |-> c, fl |-> <<>>] : c \in Canos}
    \cup {[kind |-> "WithHeaderFields", val |-> "", fl |-> fl] : fl \in FieldLists}

\* co(sc): running one SignerOption closure
ApplyOption(c, o) ==
    CASE o.kind = "WithHashAlgo" -> SetHashAlgo(c, o.val)
      [] o.kind = "WithHeaderCanonicalization" -> SetHeaderCanonicalization(c, o.val)
      [] o.kind = "WithBodyCanonicalization" -> SetBodyCanonicalization(c, o.val)
      [] o.kind = "WithHeaderFields" -> SetHeaderFields(c, o.fl)
      [] OTHER -> Res(c, NoErr)

\* The option loop of NewConfig: nil options are skipped, the first failing
\* option ends the loop and the config is returned together with the error.
RECURSIVE ApplyOptions(_, _)
ApplyOptions(c, o) ==
    IF o = <<>> THEN Res(c, NoErr)
    ELSE IF Head(o).kind = "nil" THEN ApplyOptions(c, Tail(o))
    ELSE LET r == ApplyOption(c, Head(o))
         IN  IF r.err # NoErr THEN Res(r.sc, WrapOptionErr(r.err))
             ELSE ApplyOptions(r.sc, Tail(o))

\* func NewConfig(d string, s string, o ...SignerOption) (*SignerConfig, error)
NewConfigOf(d, s, o) ==
    ApplyOptions([Domain |-> d, Selector |-> s, HashAlgo |-> "SHA-256",
                  CanonicalizationHeader |-> "simple",
                  CanonicalizationBody |-> "simple",
                  HeaderFields |-> <<>>], o)

\* The zero SignerConfig, &SignerConfig{}
ZeroConfig ==
    [Domain |-> "", Selector |-> "", HashAlgo |-> "none",
     CanonicalizationHeader |-> "", CanonicalizationBody |-> "",
     HeaderFields |-> <<>>]

\* SignerConfig struct literals built without NewConfig (TestNewSigner):
\* confOk, confNoDomain, confNoSelector, confNoHashAlgo, confInvalidAlgo,
\* confInvalidCano, confEmpty
LiteralConfigs ==
    { [ZeroConfig EXCEPT !.Domain = "test.tld", !.Selector = "mail", !.HashAlgo = "SHA-256"],
      [ZeroConfig EXCEPT !.Selector = "mail"],
      [ZeroConfig EXCEPT !.Domain = "test.tld"],
      [ZeroConfig EXCEPT !.Domain = "test.tld", !.Selector = "mail"],
      [ZeroConfig EXCEPT !.Domain = "test.tld", !.Selector = "mail", !.HashAlgo = "MD5"],
      [ZeroConfig EXCEPT !.Domain = "test.tld", !.Selector = "mail", !.HashAlgo = "SHA-256",
                         !.CanonicalizationHeader = "invalid",
                         !.CanonicalizationBody = "invalid"],
      ZeroConfig }

\* func newMiddleware(sc *SignerConfig, cs crypto.Signer) (*Middleware, error):
\* the SignOptions are filled from the config and returned, no check is made.
NewMiddlewareOf(c, key) ==
    [so |-> [Domain |-> c.Domain, Selector |-> c.Selector, Signer |-> key,
             Hash |-> c.HashAlgo,
             HeaderCanonicalization |-> c.CanonicalizationHeader,
             BodyCanonicalization |-> c.CanonicalizationBody,
             HeaderKeys |-> c.HeaderFields],
     err |-> NoErr]

\* A call record: the operation, NewConfig's arguments d, s and o, a setter's
\* value argument (val) or field list (fl), and the config before the call.
Call(op, d, s, o, val, fl, pre) ==
    [op |-> op, d |-> d, s |-> s, o |-> o, val |-> val, fl |-> fl, pre |-> pre]

NoCall == Call("none", "", "", <<>>, "", <<>>, ZeroConfig)
NoMw == [so |-> [Domain |-> "", Selector |-> "", Signer |-> "none",
                 Hash |-> "none", HeaderCanonicalization |-> "",
                 BodyCanonicalization |-> "", HeaderKeys |-> <<>>]]

\* no config has been made and no call has happened
CfgIdle ==
    /\ sc = ZeroConfig
    /\ err = NoErr
    /\ call = NoCall
    /\ mw = NoMw

-----------------------------------------------------------------------------
(* dkim/dkim.go: the header scanner *)

CR == "\r"
LF == "\n"
SP == " "
TAB == "\t"
CRLF == <<CR, LF>>

\* "DKIM-Signature" as bytes
DKIMSignature ==
    <<"D", "K", "I", "M", "-", "S", "i", "g", "n", "a", "t", "u", "r", "e">>
\* the separator strings.SplitN splits a header line at
ColonSpace == <<":", SP>>

\* mail.SingleNewLine, the cut set of strings.TrimRight
SingleNewLine == {CR, LF}

\* s[n:] and s[:n]
Drop(s, n) == SubSeq(s, n + 1, Len(s))
Take(s, n) == SubSeq(s, 1, n)

\* strings.Index(s, sep): zero-based index of the first sep in s, or -1
Index(s, sep) ==
    LET hits == {i \in 0..(Len(s) - Len(sep)) : SubSeq(s, i + 1, i + Len(sep)) = sep}
    IN  IF hits = {} THEN -1 ELSE CHOOSE i \in hits : \A j \in hits : i <= j

\* strings.SplitN(s, ": ", 2)
SplitN2(s) ==
    LET i == Index(s, ColonSpace)
    IN  IF i < 0 THEN <<s>> ELSE <<Take(s, i), Drop(s, i + Len(ColonSpace))>>

\* strings.TrimRight(s, cutset)
RECURSIVE TrimRight(_, _)
TrimRight(s, cutset) ==
    IF s # <<>> /\ s[Len(s)] \in cutset THEN TrimRight(Take(s, Len(s) - 1), cutset)
    ELSE s

\* br.ReadString('\n'): the bytes up to and including the first LF, or all
\* that is left (with io.EOF) when there is none
ReadString(b) ==
    LET i == Index(b, <<LF>>)
    IN  IF i < 0 THEN b ELSE Take(b, i + 1)

\* variant of IsFold that does not know the tab
IsFoldSpaceOnly(h, l) == Len(h) > 0 /\ l[1] = SP
\* a line that starts with a space or a tab is folded into the header before it
IsFold(h, l) == Len(h) > 0 /\ (l[1] = SP \/ l[1] = TAB)

\* The read loop of extractDKIMHeader: it ends at the end of the text or at
\* the first line that is exactly CRLF; h collects the unfolded header lines.
RECURSIVE ReadHeaders(_, _)
ReadHeaders(b, h) ==
    LET l == ReadString(b)
        rest == Drop(b, Len(l))
    IN  IF Len(l) = 0 THEN h
        ELSE IF Len(l) = 2 /\ l[1] = CR /\ l[2] = LF THEN h
        ELSE IF IsFold(h, l)
             THEN ReadHeaders(rest, [h EXCEPT ![Len(h)] = h[Len(h)] \o l])
             ELSE ReadHeaders(rest, Append(h, l))

\* The search loop of extractDKIMHeader over the collected header lines
RECURSIVE FindDKIM(_, _)
FindDKIM(h, i) ==
    IF i > Len(h) THEN [h |-> <<>>, err |-> NoErr]
    ELSE LET s == SplitN2(h[i])
         IN  IF Len(s) = 2 /\ s[1] = DKIMSignature
             THEN [h |-> TrimRight(s[2], SingleNewLine), err |-> NoErr]
             ELSE FindDKIM(h, i + 1)

\* func extractDKIMHeader(br *bufio.Reader) (string, error), for a reader
\* over an in-memory buffer (its only read error is io.EOF)
extractDKIMHeader(b) == FindDKIM(ReadHeaders(b, <<>>), 1)

-----------------------------------------------------------------------------
(* Texts handed to the scanner *)

\* most lines of a scanned text
MaxLines == 3

\* A line as it was written: a header line (name, value), a continuation
\* line (leading white space ws, value), or the empty line; eol is its line
\* ending, CRLF or nothing (a last line that is cut off).
HeaderLine(n, v, eol) == [kind |-> "header", name |-> n, ws |-> <<>>, value |-> v, eol |-> eol]
ContLine(ws, v) == [kind |-> "cont", name |-> <<>>, ws |-> ws, value |-> v, eol |-> CRLF]
EmptyLine == [kind |-> "empty", name |-> <<>>, ws |-> <<>>, value |-> <<>>, eol |-> CRLF]

FullLines ==
    { HeaderLine(DKIMSignature, <<"a">>, CRLF),
      HeaderLine(DKIMSignature, <<"b", ":", SP, "c">>, CRLF),
      HeaderLine(<<"T", "o">>, <<"x">>, CRLF),
      ContLine(<<SP>>, <<"d">>),
      ContLine(<<TAB>>, <<"e">>),
      EmptyLine }

\* a last line without line ending
CutLines == { HeaderLine(DKIMSignature, <<"a">>, <<>>) }

\* the texts: full lines, then possibly one cut line
Texts ==
    { t \in SeqsOf(FullLines \cup CutLines, 0, MaxLines) :
        \A i \in 1..Len(t) : t[i] \in CutLines => i = Len(t) }

\* the bytes of one line, and of a text
LineBytes(l) ==
    CASE l.kind = "header" -> l.name \o ColonSpace \o l.value \o l.eol
      [] l.kind = "cont" -> l.ws \o l.value \o l.eol
      [] OTHER -> l.eol

RECURSIVE TextBytes(_)
TextBytes(t) == IF t = <<>> THEN <<>> ELSE LineBytes(Head(t)) \o TextBytes(Tail(t))

NoRes == [done |-> FALSE, h |-> <<>>, err |-> NoErr]

ScanIdle ==
    /\ lines = <<>>
    /\ res = NoRes

-----------------------------------------------------------------------------
(* The OpenPGP middleware configuration: openpgp/config.go *)

\* longest option list handed to openpgp.NewConfig
MaxPgpOpts == 2

\* type Action int, and Action(3), a value outside the three constants
ActionEncrypt == 0
ActionEncryptAndSign == 1
ActionSign == 2
PgpActions == 0..3

\* type PGPScheme int: the two constants
SchemePGPInline == 0
SchemePGPMIME == 1
PgpSchemes == {SchemePGPInline, SchemePGPMIME}

\* Keys handed to NewConfig: none, the armored test keys, and a public key
\* text that is not an armored key
PrivKeys == {"", "privKey"}
PubKeys == {"", "pubKey", "garbage"}

\* the passphrase privKey is locked with, and the other ones handed in
PrivKeyPass == "pw"
Passphrases == {"", "pw"}

\* the loggers: none, the one NewConfig makes, and one handed to WithLogger
NilLogger == "nil"
DefaultLogger == "log.New(os.Stderr, log.LevelWarn)"
CustomLogger == "custom"

ErrNoPrivKey == "no private key provided"
ErrNoPubKey == "no public key provided"
ErrUnsupportedAction == "unsupported action"

\* an error value: its text, and the error errors.Is finds in it
PgpErr(text, wraps) == [text |-> text, wraps |-> wraps]
PgpNoErr == PgpErr("", "nil")

\* c := &Config{PrivKey: pr, PublicKey: pu}
PgpConfig(pr, pu) ==
    [Action |-> ActionEncrypt, Logger |-> NilLogger, PrivKey |-> pr,
     PublicKey |-> pu, Scheme |-> SchemePGPInline, passphrase |-> ""]

\* an Option: a nil one, or what one of the With* functions returns
PgpOption(kind, a, s, p) == [kind |-> kind, a |-> a, s |-> s, p |-> p]

PgpOptions ==
    {PgpOption("nil", 0, 0, ""), PgpOption("WithLogger", 0, 0, "")}
    \cup {PgpOption("WithAction", a, 0, "") : a \in PgpActions}
    \cup {PgpOption("WithScheme", 0, s, "") : s \in PgpSchemes}
    \cup {PgpOption("WithPrivKeyPass", 0, 0, p) : p \in Passphrases}

\* co(c) for one Option; NewConfig skips a nil one
ApplyPgpOption(c, co) ==
    CASE co.kind = "WithLogger" -> [c EXCEPT !.Logger = CustomLogger]
      [] co.kind = "WithScheme" -> [c EXCEPT !.Scheme = co.s]
      [] co.kind = "WithAction" -> [c EXCEPT !.Action = co.a]
      [] co.kind = "WithPrivKeyPass" -> [c EXCEPT !.passphrase = co.p]
      [] OTHER -> c

RECURSIVE ApplyPgpOptions(_, _)
ApplyPgpOptions(c, o) ==
    IF o = <<>> THEN c ELSE ApplyPgpOptions(ApplyPgpOption(c, Head(o)), Tail(o))

\* variant of the private key check that leaves ActionEncryptAndSign out
NeedsPrivKeySignOnly(c) == c.PrivKey = "" /\ c.Action = ActionSign
\* c.PrivKey == "" && (c.Action == ActionSign || c.Action == ActionEncryptAndSign)
NeedsPrivKey(c) ==
    c.PrivKey = "" /\ (c.Action = ActionSign \/ c.Action = ActionEncryptAndSign)

\* c.PublicKey == "" && (c.Action == ActionEncrypt || c.Action == ActionEncryptAndSign)
NeedsPubKey(c) ==
    c.PublicKey = "" /\ (c.Action = ActionEncrypt \/ c.Action = ActionEncryptAndSign)

\* func NewConfig(pr, pu string, o ...Option) (*Config, error): the key
\* checks return c as it is; the default logger is set after them
PgpNewConfigOf(pr, pu, o) ==
    LET c == ApplyPgpOptions(PgpConfig(pr, pu), o)
    IN  IF NeedsPrivKey(c)
        THEN [c |-> c, err |-> PgpErr("message signing requires a private key", ErrNoPrivKey)]
        ELSE IF NeedsPubKey(c)
        THEN [c |-> c, err |-> PgpErr("message encryption requires a public key", ErrNoPubKey)]
        ELSE IF c.Logger = NilLogger
        THEN [c |-> [c EXCEPT !.Logger = DefaultLogger], err |-> PgpNoErr]
        ELSE [c |-> c, err |-> PgpNoErr]

\* One NewConfig call: the keys handed in, and the *Config and the error
\* returned
PgpConfigCall(made, pr, pu, c, e) ==
    [made |-> made, pr |-> pr, pu |-> pu, c |-> c, err |-> e]

\* before NewConfig has run
NoPgpConfig == PgpConfigCall(FALSE, "", "", PgpConfig("", ""), PgpNoErr)

-----------------------------------------------------------------------------
(* The OpenPGP helpers: openpgp/helper.go *)

\* A content: the lines it was made from, the form it is in ("clear", or one
\* of the armored OpenPGP forms), the armor headers it carries, and the lines
\* that follow the armor
Data(form, text, armor, trailer) ==
    [form |-> form, text |-> text, armor |-> armor, trailer |-> trailer]
Clear(text) == Data("clear", text, "", <<>>)
NoData == Clear(<<>>)

FormEncrypted == "encrypted"
FormEncryptedSigned == "encrypted and signed"
FormSignedCleartext == "cleartext signed"
FormDetachedSignature == "detached signature"

\* the armor headers of gopenpgp, and armorVersion / armorComment
ArmorGopenpgp == "gopenpgp"
ArmorGoMail == "go-mail-middlware"

\* what a helper returns: a string and an error
PgpRes(s, e) == [s |-> s, err |-> e]

ErrCrypto == PgpErr("gopenpgp: unable to read or unlock key", "gopenpgp")

\* gopenpgp reads an armored key only; privKey is unlocked by its passphrase
PubKeyUsable(c) == c.PublicKey = "pubKey"
PrivKeyUsable(c) == c.PrivKey = "privKey" /\ c.passphrase = PrivKeyPass

\* helper.EncryptMessageArmored / helper.EncryptBinaryMessageArmored
EncryptMessageArmored(c, d) ==
    IF PubKeyUsable(c) THEN PgpRes(Data(FormEncrypted, d, ArmorGopenpgp, <<>>), PgpNoErr)
    ELSE PgpRes(NoData, ErrCrypto)

\* helper.EncryptSignMessageArmored
EncryptSignMessageArmored(c, d) ==
    IF PubKeyUsable(c) /\ PrivKeyUsable(c)
    THEN PgpRes(Data(FormEncryptedSigned, d, ArmorGopenpgp, <<>>), PgpNoErr)
    ELSE PgpRes(NoData, ErrCrypto)

\* helper.SignCleartextMessageArmored
SignCleartextMessageArmored(c, d) ==
    IF PrivKeyUsable(c)
    THEN PgpRes(Data(FormSignedCleartext, d, ArmorGopenpgp, <<>>), PgpNoErr)
    ELSE PgpRes(NoData, ErrCrypto)

\* func (m *Middleware) reArmorMessage(d string) (string, error)
reArmorMessage(d) ==
    IF d.form = "clear" THEN PgpRes(d, PgpErr("gopenpgp: unable to unarmor", "gopenpgp"))
    ELSE PgpRes([d EXCEPT !.armor = ArmorGoMail], PgpNoErr)

\* func (m *Middleware) processBinary(d []byte) (string, error)
processBinary(c, d) ==
    LET r == IF c.Action = ActionEncrypt THEN EncryptMessageArmored(c, d)
             ELSE EncryptSignMessageArmored(c, d)
    IN  CASE c.Action = ActionSign -> SignCleartextMessageArmored(c, d)
          [] c.Action \in {ActionEncrypt, ActionEncryptAndSign} ->
                IF r.err # PgpNoErr THEN r ELSE reArmorMessage(r.s)
          [] OTHER -> PgpRes(NoData, PgpErr(ErrUnsupportedAction, ErrUnsupportedAction))

\* func (m *Middleware) processPlain(d string) (string, error): ActionSign
\* has no case of its own and takes the default one
processPlain(c, d) ==
    LET r == IF c.Action = ActionEncrypt THEN EncryptMessageArmored(c, d)
             ELSE EncryptSignMessageArmored(c, d)
    IN  CASE c.Action \in {ActionEncrypt, ActionEncryptAndSign} ->
                IF r.err # PgpNoErr THEN r ELSE reArmorMessage(r.s)
          [] OTHER -> PgpRes(NoData, PgpErr(ErrUnsupportedAction, ErrUnsupportedAction))

\* func (m *Middleware) signPlainDetached(d string) (string, error)
signPlainDetached(c, d) ==
    IF PrivKeyUsable(c)
    THEN reArmorMessage(Data(FormDetachedSignature, d, ArmorGopenpgp, <<>>))
    ELSE PgpRes(NoData, ErrCrypto)

-----------------------------------------------------------------------------
(* The mail.Msg the OpenPGP middleware works on *)

\* most body parts of a message, and most embeds / most attachments
MaxParts == 2
MaxFiles == 1

TypeTextPlain == "text/plain"
TypeTextHTML == "text/html"
TypeAppOctetStream == "application/octet-stream"
TypePGPEncrypted == "application/pgp-encrypted"
TypePGPSignature == "application/pgp-signature"
ContentTypes == {TypeTextPlain, TypeTextHTML}

NoPGP == "NoPGP"
PGPEncrypt == "PGPEncrypt"
PGPSignature == "PGPSignature"

\* the lines of a body part and of a file
PartText == <<"This is the mail body">>
FileText == <<"file content">>

\* a *mail.Part: readable is FALSE when its writer function fails, so that
\* part.GetContent() returns an error
Part(ctype, content, enc, del, readable) ==
    [ctype |-> ctype, content |-> content, enc |-> enc, del |-> del,
     readable |-> readable]

\* a *mail.File: readable is FALSE when f.Writer fails
File(name, content, readable) ==
    [name |-> name, content |-> content, readable |-> readable]

\* mail.NewMsg()
NewPgpMsg == [parts |-> <<>>, embeds |-> <<>>, attachments |-> <<>>, pgptype |-> NoPGP]

\* One log call of the middleware
LogCall(level, text) == [level |-> level, text |-> text]

\* The run of a middleware function: the message, the log calls made, whether
\* the run panicked, and the bytes.Buffer the files are written to
Run(m) == [m |-> m, logs |-> <<>>, panic |-> FALSE, buf |-> <<>>]

\* m.config.Logger.Errorf / Warnf: a method call on a nil Logger panics
Logf(c, st, level, text) ==
    IF c.Logger = NilLogger THEN [st EXCEPT !.panic = TRUE]
    ELSE [st EXCEPT !.logs = Append(@, LogCall(level, text))]

\* variant of the default case of pgpInline that keeps the part
DeletePartKept(p) == p
\* part.Delete()
DeletePart(p) == [p EXCEPT !.del = TRUE]

\* pgpInline, the loop over msg.GetParts()
RECURSIVE InlineParts(_, _, _)
InlineParts(c, st, i) ==
    IF st.panic \/ i > Len(st.m.parts) THEN st
    ELSE LET part == st.m.parts[i]
             r == processPlain(c, part.content.text)
         IN  IF ~part.readable
             THEN InlineParts(c, Logf(c, st, "Errorf", "failed to get part content"), i + 1)
             ELSE IF part.ctype = TypeTextPlain
             THEN IF r.err # PgpNoErr
                  THEN InlineParts(c, Logf(c, st, "Errorf", "failed to encrypt message part"), i + 1)
                  ELSE InlineParts(c,
                         [st EXCEPT !.m.parts[i] = [part EXCEPT !.enc = "base64", !.content = r.s]],
                         i + 1)
             ELSE LET lst == Logf(c, st, "Warnf", "unsupported type. removing message part")
                  IN  IF lst.panic THEN lst
                      ELSE InlineParts(c, [lst EXCEPT !.m.parts[i] = DeletePart(part)], i + 1)

\* pgpInline, the loop over the embeds (kind = "embeds") or the attachments
\* (kind = "attachments") the message had; buf.Reset() is reached only when
\* the file has been processed
RECURSIVE InlineFiles(_, _, _, _, _)
InlineFiles(c, st, ff, i, kind) ==
    IF st.panic \/ i > Len(ff) THEN st
    ELSE LET f == ff[i]
             buf == st.buf \o f.content.text
             b == processBinary(c, buf)
             nf == File(f.name, b.s, TRUE)
         IN  IF ~f.readable
             THEN InlineFiles(c, Logf(c, st, "Errorf", "failed to write attachment to memory"),
                              ff, i + 1, kind)
             ELSE IF b.err # PgpNoErr
             THEN InlineFiles(c, Logf(c, [st EXCEPT !.buf = buf], "Errorf", "failed to encrypt attachment"),
                              ff, i + 1, kind)
             ELSE IF kind = "embeds"
             THEN InlineFiles(c, [st EXCEPT !.m.embeds = Append(@, nf), !.buf = <<>>], ff, i + 1, kind)
             ELSE InlineFiles(c, [st EXCEPT !.m.attachments = Append(@, nf), !.buf = <<>>], ff, i + 1, kind)

\* func (m *Middleware) pgpInline(msg *mail.Msg) *mail.Msg
pgpInline(c, pm) ==
    LET s1 == InlineParts(c, Run(pm), 1)
        s2 == InlineFiles(c, [s1 EXCEPT !.m.embeds = <<>>], s1.m.embeds, 1, "embeds")
        s3 == InlineFiles(c, [s2 EXCEPT !.m.attachments = <<>>], s2.m.attachments, 1, "attachments")
    IN  IF s1.panic THEN s1 ELSE IF s2.panic THEN s2 ELSE s3

\* The lines of a content as it is written
DataLines(d) ==
    IF d.form = "clear" THEN d.text
    ELSE <<"-----BEGIN PGP MESSAGE-----", d.form, "-----END PGP MESSAGE-----">> \o d.trailer

\* msg.hasMixed(), msg.hasRelated(), msg.hasAlt() of go-mail
LiveParts(pm) == SelectSeq(pm.parts, LAMBDA p : ~p.del)
HasMixed(pm) ==
    /\ pm.pgptype = NoPGP
    /\ \/ Len(pm.parts) > 0 /\ Len(pm.attachments) > 0
       \/ Len(pm.attachments) > 1
HasRelated(pm) ==
    /\ pm.pgptype = NoPGP
    /\ \/ Len(pm.parts) > 0 /\ Len(pm.embeds) > 0
       \/ Len(pm.embeds) > 1
HasAlt(pm) == pm.pgptype = NoPGP /\ Len(LiveParts(pm)) > 1

MixedLine == "Content-Type: multipart/mixed;"
RelatedLine == "Content-Type: multipart/related;"
AlternativeLine == "Content-Type: multipart/alternative;"
BoundaryLine == "--boundary"
ClosingLine == "--boundary--"

ContentTypeLine(ctype) ==
    CASE ctype = TypeTextPlain -> "Content-Type: text/plain; charset=UTF-8"
      [] ctype = TypeTextHTML -> "Content-Type: text/html; charset=UTF-8"
      [] ctype = TypePGPEncrypted -> "Content-Type: application/pgp-encrypted"
      [] OTHER -> "Content-Type: application/octet-stream"

RECURSIVE PartLines(_, _)
PartLines(pp, multi) ==
    IF pp = <<>> THEN <<>>
    ELSE (IF multi THEN <<BoundaryLine>> ELSE <<>>)
         \o <<ContentTypeLine(Head(pp).ctype), "">>
         \o DataLines(Head(pp).content)
         \o PartLines(Tail(pp), multi)

RECURSIVE FileLines(_, _)
FileLines(ff, disp) ==
    IF ff = <<>> THEN <<>>
    ELSE <<BoundaryLine, disp, "">> \o DataLines(Head(ff).content) \o FileLines(Tail(ff), disp)

\* The message as msg.WriteToSkipMiddleware writes it, line by line: the
\* headers, the Content-Type of the outermost multipart (the boundary
\* parameter is folded onto the next line), then parts, embeds, attachments
MsgLines(pm) ==
    LET multi == HasMixed(pm) \/ HasRelated(pm) \/ HasAlt(pm)
    IN  <<"Date: 0", "MIME-Version: 1.0">>
        \o (IF HasMixed(pm) THEN <<MixedLine, " boundary=boundary", "">> ELSE <<>>)
        \o (IF HasRelated(pm) THEN <<RelatedLine, " boundary=boundary", "">> ELSE <<>>)
        \o (IF HasAlt(pm) THEN <<AlternativeLine, " boundary=boundary", "">> ELSE <<>>)
        \o PartLines(LiveParts(pm), multi)
        \o FileLines(pm.embeds, "Content-Disposition: inline")
        \o FileLines(pm.attachments, "Content-Disposition: attachment")
        \o (IF multi THEN <<ClosingLine>> ELSE <<>>)

\* writing fails when the writer of a part or of a file fails
Writable(pm) ==
    /\ \A i \in 1..Len(pm.parts) : pm.parts[i].del \/ pm.parts[i].readable
    /\ \A i \in 1..Len(pm.embeds) : pm.embeds[i].readable
    /\ \A i \in 1..Len(pm.attachments) : pm.attachments[i].readable

\* p, err := mp.CreatePart(nil); msg.WriteToSkipMiddleware(p, Type): the
\* part header of the multipart writer, then the message
RenderToPart(pm) == <<"--mp", "">> \o MsgLines(pm)

\* pgpMIME, the loop over br.Scan(): the lines from the first one that
\* starts with "Content-Type: multipart/mixed;" on
RECURSIVE MailBody(_, _)
MailBody(ll, bf) ==
    IF ll = <<>> THEN <<>>
    ELSE LET bf2 == bf \/ Head(ll) = MixedLine
         IN  (IF bf2 THEN <<Head(ll)>> ELSE <<>>) \o MailBody(Tail(ll), bf2)

\* what the deferred mp.Close() writes to buf when pgpMIME returns; a file
\* made by EmbedReader / AttachReader from &buf reads it when it is written
MultipartClose == <<"", "--mp--">>

RECURSIVE DeleteParts(_)
DeleteParts(pp) ==
    IF pp = <<>> THEN <<>> ELSE <<DeletePart(Head(pp))>> \o DeleteParts(Tail(pp))

\* variant of the encrypting case of pgpMIME that keeps the attachments
MIMEEncryptedKeepAttachments(pm, ct) ==
    [parts |-> Append(DeleteParts(pm.parts),
                      Part(TypePGPEncrypted, Clear(<<"Version: 1">>), "none", FALSE, TRUE)),
     embeds |-> <<File("encrypted.asc", [ct EXCEPT !.trailer = MultipartClose], TRUE)>>,
     attachments |-> pm.attachments,
     pgptype |-> PGPEncrypt]
\* pgpMIME, case ActionEncrypt, ActionEncryptAndSign, once processPlain has
\* returned ct
MIMEEncrypted(pm, ct) ==
    [parts |-> Append(DeleteParts(pm.parts),
                      Part(TypePGPEncrypted, Clear(<<"Version: 1">>), "none", FALSE, TRUE)),
     embeds |-> <<File("encrypted.asc", [ct EXCEPT !.trailer = MultipartClose], TRUE)>>,
     attachments |-> <<>>,
     pgptype |-> PGPEncrypt]

\* variant of the signing case of pgpMIME in which the signature takes the
\* place of the attachments
MIMESignedReplacing(pm, ct) ==
    [pm EXCEPT !.attachments =
                    <<File("signature.asc", [ct EXCEPT !.trailer = MultipartClose], TRUE)>>,
                !.pgptype = PGPSignature]
\* pgpMIME, case ActionSign, once signPlainDetached has returned ct
MIMESigned(pm, ct) ==
    [pm EXCEPT !.attachments =
                    Append(@, File("signature.asc", [ct EXCEPT !.trailer = MultipartClose], TRUE)),
                !.pgptype = PGPSignature]

\* variant of pgpMIME that deletes the parts, the embeds and the attachments
\* before it calls processPlain
pgpMIMEDeletingFirst(c, pm, long) ==
    LET st == Run(pm)
        mb == MailBody(RenderToPart(pm), FALSE)
        e == processPlain(c, mb)
        s == signPlainDetached(c, mb)
        del == [pm EXCEPT !.parts = DeleteParts(@), !.embeds = <<>>, !.attachments = <<>>]
    IN  IF ~Writable(pm)
        THEN Logf(c, st, "Errorf", "failed to write mail message to memory")
        ELSE IF long
        THEN Logf(c, st, "Errorf", "failed to read mail body into memory")
        ELSE IF c.Action \in {ActionEncrypt, ActionEncryptAndSign}
        THEN IF e.err # PgpNoErr
             THEN Logf(c, [st EXCEPT !.m = del], "Errorf", "failed to encrypt message part")
             ELSE [st EXCEPT !.m = MIMEEncrypted(pm, e.s)]
        ELSE IF c.Action = ActionSign
        THEN IF s.err # PgpNoErr
             THEN Logf(c, st, "Errorf", "failed to encrypt message part")
             ELSE [st EXCEPT !.m = MIMESigned(pm, s.s)]
        ELSE st
\* func (m *Middleware) pgpMIME(msg *mail.Msg) *mail.Msg; long tells that
\* the message as written has a line longer than bufio.MaxScanTokenSize, at
\* which br.Scan() stops and br.Err() is bufio.ErrTooLong
pgpMIME(c, pm, long) ==
    LET st == Run(pm)
        mb == MailBody(RenderToPart(pm), FALSE)
        e == processPlain(c, mb)
        s == signPlainDetached(c, mb)
    IN  IF ~Writable(pm)
        THEN Logf(c, st, "Errorf", "failed to write mail message to memory")
        ELSE IF long
        THEN Logf(c, st, "Errorf", "failed to read mail body into memory")
        ELSE IF c.Action \in {ActionEncrypt, ActionEncryptAndSign}
        THEN IF e.err # PgpNoErr
             THEN Logf(c, st, "Errorf", "failed to encrypt message part")
             ELSE [st EXCEPT !.m = MIMEEncrypted(pm, e.s)]
        ELSE IF c.Action = ActionSign
        THEN IF s.err # PgpNoErr
             THEN Logf(c, st, "Errorf", "failed to encrypt message part")
             ELSE [st EXCEPT !.m = MIMESigned(pm, s.s)]
        ELSE st

\* func (m *Middleware) Handle(msg *mail.Msg) *mail.Msg
PgpHandle(c, pm) ==
    IF c.Scheme = SchemePGPInline THEN pgpInline(c, pm)
    ELSE Logf(c, Run(pm), "Errorf", "unsupported scheme. sending mail unencrypted")

\* One call into the middleware: its name, the input d of a helper, the
\* message before it, the result of a helper, the log calls, and a panic
PgpCall(op, d, pre, ret, logs, panic) ==
    [op |-> op, d |-> d, pre |-> pre, ret |-> ret, logs |-> logs, panic |-> panic]
NoPgpCall == PgpCall("none", <<>>, NewPgpMsg, PgpRes(NoData, PgpNoErr), <<>>, FALSE)

PgpIdle ==
    /\ pcfg = NoPgpConfig
    /\ pmsg = NewPgpMsg
    /\ pcall = NoPgpCall

-----------------------------------------------------------------------------
(* The Logger: log/log.go *)

\* most lines the Logger writes in one run
MaxLogLines == 2

LevelError == 0
LevelWarn == 1
LevelInfo == 2
LevelDebug == 3
\* type Level int: the four constants, one value below and one above them
Levels == -1..4

\* the prefixes handed to New, byte by byte
LogPrefixes == {<<"t", "e", "s", "t">>, <<>>}

\* the messages fmt.Sprint / fmt.Sprintf return, byte by byte
LogMessages == {<<"t", "e", "s", "t">>, <<"f", "o", "o", LF>>}

\* the prefixes of the four log.Logger made by New
ErrPrefix == <<"[", "E", "R", "R", "O", "R", "]", SP>>
WarnPrefix == <<"[", "W", "A", "R", "N", "]", SP>>
InfoPrefix == <<"[", "I", "N", "F", "O", "]", SP>>
DebugPrefix == <<"[", "D", "E", "B", "U", "G", "]", SP>>

\* the log.Logger each method writes to: l.debug, l.warn, l.info or l.err
LoggerOf(method) ==
    CASE method \in {"Debug", "Debugf"} -> DebugPrefix
      [] method \in {"Error", "Warn", "Warnf"} -> WarnPrefix
      [] method \in {"Info", "Infof"} -> InfoPrefix
      [] OTHER -> ErrPrefix

\* variant of LogEnabled in which Info is held to the level of Warn
LogEnabledInfoAtWarn(method, l) ==
    CASE method \in {"Debug", "Debugf"} -> l >= LevelDebug
      [] method \in {"Info", "Infof", "Warn", "Warnf"} -> l >= LevelWarn
      [] OTHER -> l >= LevelError
\* the condition on l.l each method starts with
LogEnabled(method, l) ==
    CASE method \in {"Debug", "Debugf"} -> l >= LevelDebug
      [] method \in {"Info", "Infof"} -> l >= LevelInfo
      [] method \in {"Warn", "Warnf"} -> l >= LevelWarn
      [] OTHER -> l >= LevelError

\* what log.LstdFlags | log.Lshortfile put ahead of the prefix
\* (log.Lmsgprefix moves the prefix to the front of the message)
StdHeader == <<"2", "0", "2", "3", "/", "0", "1", "/", "0", "1", SP,
               "l", "o", "g", ".", "g", "o", ":", "1", ":", SP>>

\* (*log.Logger).Output(2, s): header, prefix, s, and a newline when s does
\* not end with one
Output(prefix, s) ==
    StdHeader \o prefix \o s
    \o (IF s # <<>> /\ s[Len(s)] = LF THEN <<>> ELSE <<LF>>)

\* One method call: its name, its message, and the number of lines the
\* Logger had written before it
LogMethodCall(method, s, before) == [method |-> method, s |-> s, before |-> before]
NoLogCall == LogMethodCall("none", <<>>, 0)

\* A method call on the Logger g: the line is written when the method is
\* enabled at the level of g
LogWrite(g, method, s) ==
    [g EXCEPT !.out = IF LogEnabled(method, g.l)
                      THEN Append(@, Output(LoggerOf(method), s)) ELSE @,
              !.call = LogMethodCall(method, s, Len(g.out))]

\* func New(o io.Writer, p string, l Level) *Logger, o being a bytes.Buffer
NewLogger(p, l) == [made |-> TRUE, p |-> p, l |-> l, out |-> <<>>, call |-> NoLogCall]
NoLogger == [made |-> FALSE, p |-> <<>>, l |-> LevelError, out |-> <<>>, call |-> NoLogCall]

LogIdle == lg = NoLogger

-----------------------------------------------------------------------------
(* The mail.Msg and its middlewares: dkim/dkim.go, subject_capitalize.go *)

\* most middlewares attached to the message
MaxMiddlewares == 2

SubjectName == <<"S", "u", "b", "j", "e", "c", "t">>
DateName == <<"D", "a", "t", "e">>

\* the letters u and U with diaeresis (U+00FC, U+00DC), one character each
SmallUDiaeresis == "U+00FC"
CapitalUDiaeresis == "U+00DC"

\* the subjects set with msg.Subject, character by character
Subjects == { <<"a", SP, "b">>, <<"A", SP, "B">>, <<SmallUDiaeresis, SP, "b">> }

\* the text/plain body set with msg.SetBodyString
BodyText == <<"h", "i">>

\* The SignOptions of the DKIM middlewares: two that dkim.Sign accepts, with
\* selectors s1 and s2, and one without a domain, which dkim.Sign refuses.
SignOptionsOf(d, sel) == NewMiddlewareOf(NewConfigOf(d, sel, <<>>).sc, "RSA").so

DKIMMiddlewares ==
    { [type |-> "dkim", so |-> SignOptionsOf("test.tld", "s1")],
      [type |-> "dkim", so |-> SignOptionsOf("test.tld", "s2")],
      [type |-> "dkim", so |-> SignOptionsOf("", "s1")] }

\* subcap.New(language.English)
SubcapMiddleware == [type |-> "subcap", so |-> NoMw.so]

Middlewares == DKIMMiddlewares \cup {SubcapMiddleware}

\* mail.NewMsg(): no Subject, no preformatted header, no default headers yet;
\* a header's values are a list, empty while the header is not set
NewMsg ==
    [subject |-> <<>>, preform |-> <<>>, defaults |-> FALSE,
     body |-> BodyText, files |-> <<"f">>, mws |-> <<>>]

\* mime.QEncoding.Encode("UTF-8", s), as msg.encodeString calls it: a text
\* of ASCII characters is returned as it is; any other text becomes one
\* encoded word, a space written as "_" and a character outside ASCII as
\* its UTF-8 bytes in "=XX" form
QEncodeChar(c) ==
    CASE c = SP -> <<"_">>
      [] c = SmallUDiaeresis -> <<"=", "C", "3", "=", "B", "C">>
      [] c = CapitalUDiaeresis -> <<"=", "C", "3", "=", "9", "C">>
      [] OTHER -> <<c>>

RECURSIVE QEncodeChars(_)
QEncodeChars(s) == IF s = <<>> THEN <<>> ELSE QEncodeChar(Head(s)) \o QEncodeChars(Tail(s))

encodeString(s) ==
    IF \E i \in 1..Len(s) : s[i] \in {SmallUDiaeresis, CapitalUDiaeresis}
    THEN <<"=", "?", "U", "T", "F", "-", "8", "?", "q", "?">> \o QEncodeChars(s) \o <<"?", "=">>
    ELSE s

\* msg.Subject(sub): SetGenHeader stores the encoded value as the one value
\* of the Subject header
Subject(m, sub) == [m EXCEPT !.subject = <<encodeString(sub)>>]

\* cases: upper and lower case of the letters that occur in subjects and
\* in encoded words
Upper(c) ==
    CASE c = "a" -> "A" [] c = "b" -> "B" [] c = "c" -> "C" [] c = "f" -> "F"
      [] c = "q" -> "Q" [] c = "t" -> "T" [] c = "u" -> "U"
      [] c = SmallUDiaeresis -> CapitalUDiaeresis
      [] OTHER -> c
Lower(c) ==
    CASE c = "A" -> "a" [] c = "B" -> "b" [] c = "C" -> "c" [] c = "F" -> "f"
      [] c = "Q" -> "q" [] c = "T" -> "t" [] c = "U" -> "u"
      [] c = CapitalUDiaeresis -> SmallUDiaeresis
      [] OTHER -> c
IsLetter(c) == Upper(c) # c \/ Lower(c) # c

\* the characters that continue a word: letters, digits and "_"
IsWordChar(c) == IsLetter(c) \/ c \in {"3", "8", "9", "_"}

\* the title caser run over s, mid telling whether a letter of the word at
\* hand has been passed: the first letter of a word is written in upper
\* case, the letters after it in lower case
RECURSIVE TitleFrom(_, _)
TitleFrom(s, mid) ==
    IF s = <<>> THEN <<>>
    ELSE LET c == Head(s)
         IN  IF IsLetter(c)
             THEN <<(IF mid THEN Lower(c) ELSE Upper(c))>> \o TitleFrom(Tail(s), TRUE)
             ELSE <<c>> \o TitleFrom(Tail(s), mid /\ IsWordChar(c))

\* cases.Title(language.English).String(s): the first letter of every word
\* in upper case, the other letters in lower case
Title(s) == TitleFrom(s, FALSE)

\* subcap Middleware.Handle: cs[0] of an unset Subject is out of range;
\* cs[0] is the value as the header stores it
SubcapHandle(m) ==
    IF m.subject = <<>> THEN [m |-> m, panic |-> TRUE]
    ELSE [m |-> Subject(m, Title(m.subject[1])), panic |-> FALSE]

\* The non-DKIM middlewares of a chain, applied in order (applyMiddlewares
\* as run by msg.WriteToSkipMiddleware(w, dkim.Type))
RECURSIVE ApplyOthers(_, _)
ApplyOthers(m, chain) ==
    IF chain = <<>> THEN [m |-> m, panic |-> FALSE]
    ELSE IF Head(chain).type = "dkim" THEN ApplyOthers(m, Tail(chain))
    ELSE \* r is what Handle returned, computed once
         CHOOSE a \in {IF r.panic THEN r ELSE ApplyOthers(r.m, Tail(chain)) :
                        r \in {SubcapHandle(m)}} : TRUE

\* The message as written: the generic headers (Date is filled in when it
\* is missing), the preformatted header, the empty line and the body.
Render(m) ==
    DateName \o ColonSpace \o <<"0">> \o CRLF
    \o (IF m.subject = <<>> THEN <<>>
        ELSE SubjectName \o ColonSpace \o m.subject[1] \o CRLF)
    \o (IF m.preform = <<>> THEN <<>>
        ELSE DKIMSignature \o ColonSpace \o m.preform[1] \o CRLF)
    \o CRLF
    \o m.body \o CRLF

\* m.WriteToSkipMiddleware(&ibuf, Type): the other middlewares are applied
\* to m, the default headers are added to m, and m is written to ibuf
WriteToSkipMiddleware(m) ==
    LET r == ApplyOthers(m, m.mws)
        m2 == [r.m EXCEPT !.defaults = TRUE]
    IN  IF r.panic THEN [m |-> r.m, panic |-> TRUE, buf |-> <<>>]
        ELSE [m |-> m2, panic |-> FALSE, buf |-> Render(m2)]

\* the bytes of a selector
SelectorBytes(sel) ==
    CASE sel = "s1" -> <<"s", "1">> [] sel = "s2" -> <<"s", "2">> [] OTHER -> <<>>

\* dkim.Sign(&obuf, &ibuf, so): refused without a domain or a selector;
\* otherwise the folded DKIM-Signature header (selector tag, then the
\* signature tag on a continuation line) is written ahead of the message
Sign(ibuf, so) ==
    IF so.Domain = "" \/ so.Selector = "" THEN [ok |-> FALSE, obuf |-> <<>>]
    ELSE [ok |-> TRUE,
          obuf |-> DKIMSignature \o ColonSpace
                   \o <<"s", "=">> \o SelectorBytes(so.Selector) \o <<";">> \o CRLF
                   \o <<SP, "b", "=", "x">> \o CRLF
                   \o ibuf]

\* variant of SetHeaderPreformatted that leaves the header as it is
SetHeaderDropped(m, h) == m
\* m.SetHeaderPreformatted("DKIM-Signature", h): the one value of that key
SetHeaderPreformatted(m, h) == [m EXCEPT !.preform = <<h>>]

\* One Handle call as recorded in trace
HandleRec(d, pre, post, ibuf, obuf, signed, panic) ==
    [mw |-> d, pre |-> pre, post |-> post, ibuf |-> ibuf, obuf |-> obuf,
     signed |-> signed, panic |-> panic]

\* func (d Middleware) Handle(m *mail.Msg) *mail.Msg
DKIMHandle(d, m) ==
    LET w == WriteToSkipMiddleware(m)
        sg == Sign(w.buf, d.so)
        x == extractDKIMHeader(sg.obuf)
    IN  IF w.panic THEN HandleRec(d, m, w.m, <<>>, <<>>, FALSE, TRUE)
        ELSE IF ~sg.ok THEN HandleRec(d, m, w.m, w.buf, <<>>, FALSE, FALSE)
        ELSE IF x.err # NoErr THEN HandleRec(d, m, w.m, w.buf, sg.obuf, TRUE, FALSE)
        ELSE IF x.h # <<>>
             THEN HandleRec(d, m, SetHeaderPreformatted(w.m, x.h), w.buf, sg.obuf, TRUE, FALSE)
             ELSE HandleRec(d, m, w.m, w.buf, sg.obuf, TRUE, FALSE)

\* middleware.Handle(msg) for either kind of middleware
Handle(d, m) ==
    IF d.type = "dkim" THEN DKIMHandle(d, m)
    ELSE LET r == SubcapHandle(m)
         IN  HandleRec(d, m, r.m, <<>>, <<>>, FALSE, r.panic)

\* applyMiddlewares as run by msg.WriteTo: every middleware of the message
\* handles it in turn; a panic ends the run
RECURSIVE ApplyMiddlewares(_, _, _)
ApplyMiddlewares(m, chain, tr) ==
    IF chain = <<>> THEN [m |-> m, panic |-> FALSE, trace |-> tr]
    ELSE \* h is the record of the Handle call, computed once
         CHOOSE a \in
             {IF h.panic THEN [m |-> h.post, panic |-> TRUE, trace |-> Append(tr, h)]
              ELSE ApplyMiddlewares(h.post, Tail(chain), Append(tr, h)) :
              h \in {Handle(Head(chain), m)}} : TRUE

NoOut == [done |-> FALSE, panic |-> FALSE, buf |-> <<>>]

MsgIdle ==
    /\ msg = NewMsg
    /\ out = NoOut
    /\ trace = <<>>

MsgInit ==
    /\ PgpIdle
    /\ LogIdle
    /\ CfgIdle
    /\ ScanIdle
    /\ MsgIdle

\* msg.Subject(s)
SetSubject ==
    /\ ~out.panic
    /\ \E sub \in Subjects : msg' = Subject(msg, sub)
    /\ UNCHANGED <<out, trace, cfgVars, scanVars, pgpVars, logVars>>

\* mail.WithMiddleware(mw), when the message is made
WithMiddleware ==
    /\ ~out.done
    /\ Len(msg.mws) < MaxMiddlewares
    /\ \E d \in Middlewares : msg' = [msg EXCEPT !.mws = Append(@, d)]
    /\ UNCHANGED <<out, trace, cfgVars, scanVars, pgpVars, logVars>>

\* msg.WriteTo(&buf): applyMiddlewares, then the message is written; a
\* panic of a middleware ends the program
WriteTo ==
    /\ ~out.panic
    /\ LET r == ApplyMiddlewares(msg, msg.mws, <<>>)
           m2 == [r.m EXCEPT !.defaults = TRUE]
       IN  /\ trace' = r.trace
           /\ IF r.panic
              THEN msg' = r.m /\ out' = [done |-> TRUE, panic |-> TRUE, buf |-> <<>>]
              ELSE msg' = m2 /\ out' = [done |-> TRUE, panic |-> FALSE, buf |-> Render(m2)]
    /\ UNCHANGED <<cfgVars, scanVars, pgpVars, logVars>>

MsgNext ==
    \/ SetSubject
    \/ WithMiddleware
    \/ WriteTo

SpecMsg == MsgInit /\ [][MsgNext]_vars

-----------------------------------------------------------------------------
(* The scanner applied to a text *)

ScanInit ==
    /\ PgpIdle
    /\ LogIdle
    /\ CfgIdle
    /\ MsgIdle
    /\ lines \in Texts
    /\ res = NoRes

\* extractDKIMHeader(bufio.NewReader(text))
Extract ==
    /\ ~res.done
    /\ LET r == extractDKIMHeader(TextBytes(lines))
       IN  res' = [done |-> TRUE, h |-> r.h, err |-> r.err]
    /\ UNCHANGED <<lines, cfgVars, msgVars, pgpVars, logVars>>

ScanNext == Extract

SpecScan == ScanInit /\ [][ScanNext]_vars

-----------------------------------------------------------------------------
(* Actions on the signer configuration *)

CfgInit ==
    /\ PgpIdle
    /\ LogIdle
    /\ CfgIdle
    /\ ScanIdle
    /\ MsgIdle

\* NewConfig creates the config the model follows
NewConfig ==
    /\ call.op = "none"
    /\ \E d \in Domains, s \in Selectors, o \in SeqsOf(Options, 0, MaxOpts) :
        LET r == NewConfigOf(d, s, o)
        IN  /\ sc' = r.sc
            /\ err' = r.err
            /\ call' = Call("NewConfig", d, s, o, "", <<>>, sc)
            /\ mw' = NoMw
            /\ UNCHANGED <<scanVars, msgVars, pgpVars, logVars>>

\* The Set* methods are called on the config the model follows.
CallSetHashAlgo ==
    /\ call.op # "none"
    /\ \E ha \in Hashes :
        LET r == SetHashAlgo(sc, ha)
        IN  /\ sc' = r.sc
            /\ err' = r.err
            /\ call' = Call("SetHashAlgo", "", "", <<>>, ha, <<>>, sc)
            /\ mw' = NoMw
            /\ UNCHANGED <<scanVars, msgVars, pgpVars, logVars>>

CallSetHeaderCanonicalization ==
    /\ call.op # "none"
    /\ \E c \in Canos :
        LET r == SetHeaderCanonicalization(sc, c)
        IN  /\ sc' = r.sc
            /\ err' = r.err
            /\ call' = Call("SetHeaderCanonicalization", "", "", <<>>, c, <<>>, sc)
            /\ mw' = NoMw
            /\ UNCHANGED <<scanVars, msgVars, pgpVars, logVars>>

CallSetBodyCanonicalization ==
    /\ call.op # "none"
    /\ \E c \in Canos :
        LET r == SetBodyCanonicalization(sc, c)
        IN  /\ sc' = r.sc
            /\ err' = r.err
            /\ call' = Call("SetBodyCanonicalization", "", "", <<>>, c, <<>>, sc)
            /\ mw' = NoMw
            /\ UNCHANGED <<scanVars, msgVars, pgpVars, logVars>>

CallSetHeaderFields ==
    /\ call.op # "none"
    /\ \E fl \in FieldLists :
        LET r == SetHeaderFields(sc, fl)
        IN  /\ Len(r.sc.HeaderFields) <= MaxHeaderFields
            /\ sc' = r.sc
            /\ err' = r.err
            /\ call' = Call("SetHeaderFields", "", "", <<>>, "", fl, sc)
            /\ mw' = NoMw
            /\ UNCHANGED <<scanVars, msgVars, pgpVars, logVars>>

\* the config the model follows is written as a struct literal
LiteralConfig ==
    /\ call.op = "none"
    /\ \E c \in LiteralConfigs :
        /\ sc' = c
        /\ err' = NoErr
        /\ call' = Call("literal", "", "", <<>>, "", <<>>, sc)
        /\ mw' = NoMw
        /\ UNCHANGED <<scanVars, msgVars, pgpVars, logVars>>

\* newMiddleware(sc, cs) with any of the signer key types
CallNewMiddleware ==
    /\ call.op # "none"
    /\ \E key \in KeyTypes :
        LET r == NewMiddlewareOf(sc, key)
        IN  /\ mw' = [so |-> r.so]
            /\ err' = r.err
            /\ call' = Call("newMiddleware", "", "", <<>>, key, <<>>, sc)
            /\ UNCHANGED <<sc, scanVars, msgVars, pgpVars, logVars>>

CfgNext ==
    \/ NewConfig
    \/ LiteralConfig
    \/ CallSetHashAlgo
    \/ CallSetHeaderCanonicalization
    \/ CallSetBodyCanonicalization
    \/ CallSetHeaderFields
    \/ CallNewMiddleware

SpecConfig == CfgInit /\ [][CfgNext]_vars

-----------------------------------------------------------------------------
(* Actions on the OpenPGP middleware *)

PgpInit ==
    /\ CfgIdle
    /\ ScanIdle
    /\ MsgIdle
    /\ LogIdle
    /\ PgpIdle

\* the message has been handed to Handle or to pgpMIME
PgpHandled == pcall.op \in {"Handle", "pgpMIME"}

\* the configuration is made and the message is still being put together
PgpBuilding == pcfg.made /\ pcall.op = "none"

\* mc, err := NewConfig(pr, pu, o...)
PgpNewConfig ==
    /\ ~pcfg.made
    /\ \E pr \in PrivKeys, pu \in PubKeys, o \in SeqsOf(PgpOptions, 0, MaxPgpOpts) :
            LET r == PgpNewConfigOf(pr, pu, o)
            IN  pcfg' = PgpConfigCall(TRUE, pr, pu, r.c, r.err)
    /\ UNCHANGED <<pmsg, pcall, cfgVars, scanVars, msgVars, logVars>>

\* mw.config.PublicKey = "", as the tests of processPlain / processBinary do
\* on a middleware that has not been given a message
ClearPublicKey ==
    /\ PgpBuilding
    /\ pmsg = NewPgpMsg
    /\ pcfg.c.PublicKey # ""
    /\ pcfg' = [pcfg EXCEPT !.c.PublicKey = ""]
    /\ UNCHANGED <<pmsg, pcall, cfgVars, scanVars, msgVars, logVars>>

\* m.SetBodyString / m.AddAlternativeString (the writer of the part never
\* fails) or m.SetBodyWriter / m.AddAlternativeWriter (it may fail)
AddPart ==
    /\ PgpBuilding
    /\ pcfg.c.PublicKey = pcfg.pu
    /\ Len(pmsg.parts) < MaxParts
    /\ \E ctype \in ContentTypes, readable \in BOOLEAN :
            pmsg' = [pmsg EXCEPT !.parts =
                        Append(@, Part(ctype, Clear(PartText), "quoted-printable", FALSE, readable))]
    /\ UNCHANGED <<pcfg, pcall, cfgVars, scanVars, msgVars, logVars>>

\* m.EmbedReader(name, r)
EmbedReader ==
    /\ PgpBuilding
    /\ pcfg.c.PublicKey = pcfg.pu
    /\ Len(pmsg.embeds) < MaxFiles
    /\ \E readable \in BOOLEAN :
            pmsg' = [pmsg EXCEPT !.embeds = Append(@, File("embed", Clear(FileText), readable))]
    /\ UNCHANGED <<pcfg, pcall, cfgVars, scanVars, msgVars, logVars>>

\* m.AttachReader(name, r)
AttachReader ==
    /\ PgpBuilding
    /\ pcfg.c.PublicKey = pcfg.pu
    /\ Len(pmsg.attachments) < MaxFiles
    /\ \E readable \in BOOLEAN :
            pmsg' = [pmsg EXCEPT !.attachments = Append(@, File("attachment", Clear(FileText), readable))]
    /\ UNCHANGED <<pcfg, pcall, cfgVars, scanVars, msgVars, logVars>>

\* NewMiddleware(mc).Handle(m), as applyMiddlewares of msg.WriteTo calls it
CallHandle ==
    /\ PgpBuilding
    /\ LET r == PgpHandle(pcfg.c, pmsg)
       IN  /\ pmsg' = r.m
           /\ pcall' = PgpCall("Handle", <<>>, pmsg, PgpRes(NoData, PgpNoErr), r.logs, r.panic)
    /\ UNCHANGED <<pcfg, cfgVars, scanVars, msgVars, logVars>>

\* NewMiddleware(mc).pgpMIME(m); a message that cannot be written has no
\* written line for br.Scan() to stop at
CallPgpMIME ==
    /\ PgpBuilding
    /\ \E long \in (IF Writable(pmsg) THEN BOOLEAN ELSE {FALSE}) :
       LET r == pgpMIME(pcfg.c, pmsg, long)
       IN  /\ pmsg' = r.m
           /\ pcall' = PgpCall("pgpMIME", MailBody(RenderToPart(pmsg), FALSE), pmsg,
                               PgpRes(NoData, PgpNoErr), r.logs, r.panic)
    /\ UNCHANGED <<pcfg, cfgVars, scanVars, msgVars, logVars>>

\* NewMiddleware(mc).processPlain(ts)
CallProcessPlain ==
    /\ pcfg.made
    /\ pmsg = NewPgpMsg
    /\ ~PgpHandled
    /\ \E d \in {PartText, <<>>} :
            pcall' = PgpCall("processPlain", d, pmsg, processPlain(pcfg.c, d), <<>>, FALSE)
    /\ UNCHANGED <<pcfg, pmsg, cfgVars, scanVars, msgVars, logVars>>

\* NewMiddleware(mc).processBinary(ts)
CallProcessBinary ==
    /\ pcfg.made
    /\ pmsg = NewPgpMsg
    /\ ~PgpHandled
    /\ \E d \in {FileText, <<>>} :
            pcall' = PgpCall("processBinary", d, pmsg, processBinary(pcfg.c, d), <<>>, FALSE)
    /\ UNCHANGED <<pcfg, pmsg, cfgVars, scanVars, msgVars, logVars>>

PgpNext ==
    \/ PgpNewConfig
    \/ ClearPublicKey
    \/ AddPart
    \/ EmbedReader
    \/ AttachReader
    \/ CallHandle
    \/ CallPgpMIME
    \/ CallProcessPlain
    \/ CallProcessBinary

SpecPgp == PgpInit /\ [][PgpNext]_vars

-----------------------------------------------------------------------------
(* Actions on the Logger *)

LogInit ==
    /\ CfgIdle
    /\ ScanIdle
    /\ MsgIdle
    /\ PgpIdle
    /\ LogIdle

\* l := New(&b, p, level)
New ==
    /\ ~lg.made
    /\ \E p \in LogPrefixes, l \in Levels : lg' = NewLogger(p, l)
    /\ UNCHANGED <<cfgVars, scanVars, msgVars, pgpVars>>

\* l.l = level, as the tests do
SetLevel ==
    /\ lg.made
    /\ \E l \in Levels : l # lg.l /\ lg' = [lg EXCEPT !.l = l, !.call = NoLogCall]
    /\ UNCHANGED <<cfgVars, scanVars, msgVars, pgpVars>>

\* the Logger is made and has room for one more line
LogReady == lg.made /\ Len(lg.out) < MaxLogLines

Debug ==
    /\ LogReady
    /\ \E s \in LogMessages : lg' = LogWrite(lg, "Debug", s)
    /\ UNCHANGED <<cfgVars, scanVars, msgVars, pgpVars>>

Error ==
    /\ LogReady
    /\ \E s \in LogMessages : lg' = LogWrite(lg, "Error", s)
    /\ UNCHANGED <<cfgVars, scanVars, msgVars, pgpVars>>

Info ==
    /\ LogReady
    /\ \E s \in LogMessages : lg' = LogWrite(lg, "Info", s)
    /\ UNCHANGED <<cfgVars, scanVars, msgVars, pgpVars>>

Warn ==
    /\ LogReady
    /\ \E s \in LogMessages : lg' = LogWrite(lg, "Warn", s)
    /\ UNCHANGED <<cfgVars, scanVars, msgVars, pgpVars>>

Debugf ==
    /\ LogReady
    /\ \E s \in LogMessages : lg' = LogWrite(lg, "Debugf", s)
    /\ UNCHANGED <<cfgVars, scanVars, msgVars, pgpVars>>

Errorf ==
    /\ LogReady
    /\ \E s \in LogMessages : lg' = LogWrite(lg, "Errorf", s)
    /\ UNCHANGED <<cfgVars, scanVars, msgVars, pgpVars>>

Infof ==
    /\ LogReady
    /\ \E s \in LogMessages : lg' = LogWrite(lg, "Infof", s)
    /\ UNCHANGED <<cfgVars, scanVars, msgVars, pgpVars>>

Warnf ==
    /\ LogReady
    /\ \E s \in LogMessages : lg' = LogWrite(lg, "Warnf", s)
    /\ UNCHANGED <<cfgVars, scanVars, msgVars, pgpVars>>

LogNext ==
    \/ New
    \/ SetLevel
    \/ Debug
    \/ Error
    \/ Info
    \/ Warn
    \/ Debugf
    \/ Errorf
    \/ Infof
    \/ Warnf

SpecLog == LogInit /\ [][LogNext]_vars

-----------------------------------------------------------------------------
(* Properties of the signer configuration *)

\* the spellings of "From" that occur among FieldNames
FromSpellings == {"From", "fROM"}
ContainsFrom(fl) == \E i \in 1..Len(fl) : fl[i] \in FromSpellings

\* the option list of the last call, when that call was NewConfig
OptsOfCall == call.o
\* the option list holds exactly one option that is not nil, at position i
OnlyOptionAt(i) ==
    /\ i \in 1..Len(OptsOfCall)
    /\ OptsOfCall[i].kind # "nil"
    /\ \A j \in 1..Len(OptsOfCall) : j # i => OptsOfCall[j].kind = "nil"

\* C5: NewConfig(d, s, ...) returns an error when the domain d or the
\* selector s is empty, and a SignerConfig it returns without error has a
\* non-empty Domain and a non-empty Selector.
C5_NewConfigRejectsEmpty ==
    call.op = "NewConfig" =>
        /\ (call.d = "" \/ call.s = "") => err # NoErr
        /\ err = NoErr => (sc.Domain # "" /\ sc.Selector # "")

\* C6: newMiddleware returns an error for a config with an empty domain, an
\* empty selector, no hash algorithm, a hash algorithm other than SHA-256 or
\* an unsupported canonicalization, and for an ECDSA signer key; without an
\* error the config has a domain, a selector and hash algorithm SHA-256.
C6_NewMiddlewareValidates ==
    call.op = "newMiddleware" =>
        LET bad == \/ sc.Domain = ""
                   \/ sc.Selector = ""
                   \/ sc.HashAlgo # "SHA-256"
                   \/ sc.CanonicalizationHeader \notin {"", "simple", "relaxed"}
                   \/ sc.CanonicalizationBody \notin {"", "simple", "relaxed"}
                   \/ call.val = "ECDSA"
        IN  /\ bad => err # NoErr
            /\ err = NoErr => (sc.Domain # "" /\ sc.Selector # "" /\ sc.HashAlgo = "SHA-256")

C8_HeaderFieldsNeedFrom ==
    /\ call.op = "SetHeaderFields" => (err # NoErr <=> ~ContainsFrom(call.fl))
    /\ call.op = "NewConfig" =>
          \A i \in 1..Len(OptsOfCall) :
             (OnlyOptionAt(i) /\ OptsOfCall[i].kind = "WithHeaderFields")
             => (err # NoErr <=> ~ContainsFrom(OptsOfCall[i].fl))

\* C8 witness: a list with From first, in another letter case, was accepted.
C8_Witness ==
    /\ call.op = "SetHeaderFields"
    /\ call.fl = <<"fROM", "To">>
    /\ err = NoErr

\* C9: HeaderFields is empty or holds a field equal to "From" ignoring case,
\* after NewConfig with any options and after every SetHeaderFields call.
C9_HeaderFieldsHaveFrom ==
    sc.HeaderFields = <<>> \/ ContainsFrom(sc.HeaderFields)

\* C10: after a successful SetHeaderFields(fl...) the HeaderFields list is
\* exactly fl, whatever was configured before.
C10_SetHeaderFieldsOverrides ==
    (call.op = "SetHeaderFields" /\ err = NoErr) => sc.HeaderFields = call.fl

-----------------------------------------------------------------------------
(* Properties of the header scanner *)

\* The header section of a text: its lines before the first empty line.
RECURSIVE HeaderSection(_)
HeaderSection(t) ==
    IF t = <<>> \/ Head(t).kind = "empty" THEN <<>>
    ELSE <<Head(t)>> \o HeaderSection(Tail(t))

\* The continuation lines that directly follow position i of section t
RECURSIVE FoldedAfter(_, _)
FoldedAfter(t, i) ==
    IF i + 1 <= Len(t) /\ t[i + 1].kind = "cont"
    THEN CRLF \o t[i + 1].ws \o t[i + 1].value \o FoldedAfter(t, i + 1)
    ELSE <<>>

\* positions of the DKIM-Signature header lines of section t
DKIMPositions(t) == {i \in 1..Len(t) : t[i].kind = "header" /\ t[i].name = DKIMSignature}

\* The value of the first DKIM-Signature header of a text: what follows
\* "DKIM-Signature: ", with its folded continuation lines, without the
\* closing line break; the empty string when there is no such header.
DKIMValue(t) ==
    LET hs == HeaderSection(t)
        ps == DKIMPositions(hs)
    IN  IF ps = {} THEN <<>>
        ELSE LET p == CHOOSE i \in ps : \A j \in ps : i <= j
             IN  hs[p].value \o FoldedAfter(hs, p)

\* C4: extractDKIMHeader returns the value of the DKIM-Signature header of
\* the text it reads (without the header name), and the empty string with a
\* nil error for a text without such a header, the empty text included.
C4_ExtractReturnsValue ==
    res.done => (res.err = NoErr /\ res.h = DKIMValue(lines))

\* C4 witness: a folded DKIM-Signature header behind another header was
\* returned with its continuation line.
C4_Witness ==
    /\ res.done
    /\ Len(lines) = 3
    /\ lines[1].name = <<"T", "o">>
    /\ lines[2].name = DKIMSignature
    /\ lines[3].kind = "cont"
    /\ lines[3].ws = <<TAB>>
    /\ res.h = lines[2].value \o CRLF \o <<TAB>> \o lines[3].value

-----------------------------------------------------------------------------
(* Properties of the DKIM middleware *)

\* the lines of a text, each with its line ending
RECURSIVE LinesOf(_)
LinesOf(b) ==
    IF b = <<>> THEN <<>>
    ELSE LET l == ReadString(b) IN <<l>> \o LinesOf(Drop(b, Len(l)))

HasPrefix(l, pre) == Len(l) >= Len(pre) /\ Take(l, Len(pre)) = pre

DKIMPrefix == DKIMSignature \o <<":">>

\* bytes.Count(b, "DKIM-Signature:")
CountDKIM(b) ==
    Cardinality({i \in 0..(Len(b) - Len(DKIMPrefix)) :
                    SubSeq(b, i + 1, i + Len(DKIMPrefix)) = DKIMPrefix})

\* A text without its first DKIM-Signature header line and that header's
\* continuation lines; st is "before", "in" or "after" that header.
RECURSIVE DropFirstDKIM(_, _)
DropFirstDKIM(ls, st) ==
    IF ls = <<>> THEN <<>>
    ELSE LET l == Head(ls)
         IN  IF st = "before" /\ l = CRLF THEN l \o DropFirstDKIM(Tail(ls), "after")
             ELSE IF st = "before" /\ HasPrefix(l, DKIMPrefix) THEN DropFirstDKIM(Tail(ls), "in")
             ELSE IF st = "in" /\ l[1] \in {SP, TAB} THEN DropFirstDKIM(Tail(ls), "in")
             ELSE IF st = "in" THEN l \o DropFirstDKIM(Tail(ls), "after")
             ELSE l \o DropFirstDKIM(Tail(ls), st)

WithoutSignature(b) == DropFirstDKIM(LinesOf(b), "before")

\* the Handle calls of DKIM middlewares that rendered and signed
SignedCalls == {i \in 1..Len(trace) :
                  trace[i].mw.type = "dkim" /\ trace[i].signed /\ ~trace[i].panic}

\* the value Handle took from the signed output of call i
SignatureOf(i) == extractDKIMHeader(trace[i].obuf).h

\* C1 (as claimed): when rendering and signing succeed and the signed output
\* has a DKIM-Signature header, Handle sets the message's DKIM-Signature
\* header to the value extractDKIMHeader returns for the signed output and
\* changes nothing else on the message.
C1_HandleOnlySetsSignature ==
    \A i \in SignedCalls :
        CountDKIM(trace[i].obuf) > 0 =>
            trace[i].post = [trace[i].pre EXCEPT !.preform = <<SignatureOf(i)>>]

\* C1 (amended): ... Handle sets the DKIM-Signature header to that value; the
\* only other changes to the message are those of rendering it with
\* WriteToSkipMiddleware: its non-DKIM middlewares are applied to it and its
\* missing default headers are filled in.
C1_HandleSetsSignature ==
    \A i \in SignedCalls :
        CountDKIM(trace[i].obuf) > 0 =>
            /\ SignatureOf(i) # <<>>
            /\ trace[i].post =
                   [WriteToSkipMiddleware(trace[i].pre).m EXCEPT !.preform = <<SignatureOf(i)>>]

\* C1 witness: a DKIM Handle that signed, set the folded signature value and
\* found the subject changed by the subcap middleware attached behind it.
C1_Witness ==
    /\ out.done /\ ~out.panic
    /\ Len(trace) = 2
    /\ 1 \in SignedCalls
    /\ trace[2].mw.type = "subcap"
    /\ trace[1].pre.subject = << <<"a", SP, "b">> >>
    /\ trace[1].post.subject = << <<"A", SP, "B">> >>
    /\ trace[1].pre.preform = <<>>
    /\ trace[1].post.preform = << <<"s", "=", "s", "1", ";", CR, LF, SP, "b", "=", "x">> >>

\* the DKIM middlewares of the message that dkim.Sign accepts
AcceptedDKIM(m) ==
    {i \in 1..Len(m.mws) : m.mws[i].type = "dkim" /\ Sign(<<>>, m.mws[i].so).ok}

\* C2: a message with two DKIM middlewares, each with its own selector, is
\* written by WriteTo with exactly two DKIM-Signature headers.
C2_TwoSignatures ==
    (/\ out.done /\ ~out.panic
     /\ Len(msg.mws) = 2
     /\ AcceptedDKIM(msg) = {1, 2}
     /\ msg.mws[1].so.Selector # msg.mws[2].so.Selector)
    => CountDKIM(out.buf) = 2

\* what was written is what call i signed, plus that call's signature header
SentIsSigned(i) ==
    /\ WithoutSignature(out.buf) = trace[i].ibuf
    /\ extractDKIMHeader(out.buf).h = SignatureOf(i)

\* C3: when a DKIM middleware is the last middleware applied, what is written
\* is what it signed plus the DKIM-Signature header; and when a middleware
\* applied after a DKIM middleware alters the message, what is written is
\* not what that DKIM middleware signed.
C3_LastSignsWhatIsSent ==
    (out.done /\ ~out.panic) =>
        /\ Len(trace) \in SignedCalls => SentIsSigned(Len(trace))
        /\ \A i \in SignedCalls :
              (\E j \in (i + 1)..Len(trace) : Render(trace[j].post) # Render(trace[j].pre))
              => ~SentIsSigned(i)

-----------------------------------------------------------------------------
(* Properties of the OpenPGP configuration *)

\* the action of the returned Config needs a private key / a public key
SigningAction == pcfg.c.Action \in {ActionSign, ActionEncryptAndSign}
EncryptingAction == pcfg.c.Action \in {ActionEncrypt, ActionEncryptAndSign}

\* C11, as stated: NewConfig returns an error wrapping ErrNoPrivKey when the
\* private key is empty and the action signs, an error wrapping ErrNoPubKey
\* when the public key is empty and the action encrypts, and no error
\* otherwise.
C11_NewConfigKeyErrors ==
    pcfg.made =>
        /\ (pcfg.pr = "" /\ SigningAction) => pcfg.err.wraps = ErrNoPrivKey
        /\ (pcfg.pu = "" /\ EncryptingAction) => pcfg.err.wraps = ErrNoPubKey
        /\ (~(pcfg.pr = "" /\ SigningAction) /\ ~(pcfg.pu = "" /\ EncryptingAction))
                => pcfg.err = PgpNoErr

\* C11, amended: NewConfig succeeds exactly when the keys the action needs
\* are present; the error wraps ErrNoPrivKey when the private key is empty
\* and the action signs, and wraps ErrNoPubKey when the public key is empty,
\* the action encrypts and the private key check has not failed.
C11_NewConfigKeyErrorsInOrder ==
    pcfg.made =>
        /\ (pcfg.pr = "" /\ SigningAction) => pcfg.err.wraps = ErrNoPrivKey
        /\ (pcfg.pu = "" /\ EncryptingAction /\ ~(pcfg.pr = "" /\ SigningAction))
                => pcfg.err.wraps = ErrNoPubKey
        /\ (~(pcfg.pr = "" /\ SigningAction) /\ ~(pcfg.pu = "" /\ EncryptingAction))
                => pcfg.err = PgpNoErr
        /\ pcfg.err = PgpNoErr \/ pcfg.err.wraps \in {ErrNoPrivKey, ErrNoPubKey}

\* a private-key-only config without WithAction(ActionSign) has been rejected
C11_Witness ==
    /\ pcfg.made
    /\ pcfg.pr = "privKey" /\ pcfg.pu = ""
    /\ pcfg.c.Action = ActionEncrypt
    /\ pcfg.err.wraps = ErrNoPubKey

-----------------------------------------------------------------------------
(* Properties of the OpenPGP middleware *)

\* Handle has returned for a Config that NewConfig returned without error
\* and that was not changed afterwards
HandleReturned ==
    /\ pcall.op = "Handle"
    /\ ~pcall.panic
    /\ pcfg.err = PgpNoErr
    /\ pcfg.c.PublicKey = pcfg.pu

\* C12: Handle processes the message through the inline path for
\* SchemePGPInline, through the MIME path for SchemePGPMIME, and returns it
\* unprocessed only for a scheme outside these two.
C12_BothSchemesHandled ==
    HandleReturned =>
        /\ pcfg.c.Scheme = SchemePGPInline => pmsg = pgpInline(pcfg.c, pcall.pre).m
        /\ pcfg.c.Scheme = SchemePGPMIME => pmsg = pgpMIME(pcfg.c, pcall.pre, FALSE).m
        /\ pcfg.c.Scheme \notin {SchemePGPInline, SchemePGPMIME} => pmsg = pcall.pre

\* Handle has returned from the inline path
InlineReturned == HandleReturned /\ pcfg.c.Scheme = SchemePGPInline

KeysUsable ==
    /\ pcfg.c.Action \in {ActionEncrypt, ActionEncryptAndSign} => PubKeyUsable(pcfg.c)
    /\ pcfg.c.Action \in {ActionSign, ActionEncryptAndSign} => PrivKeyUsable(pcfg.c)

\* C14: processPlain and processBinary return without error for each of the
\* three actions, given the keys the action needs, and return an error for
\* any other action and for ActionEncrypt with an empty public key.
C14_ProcessActions ==
    pcall.op \in {"processPlain", "processBinary"} =>
        /\ (pcfg.c.Action \in {ActionEncrypt, ActionEncryptAndSign, ActionSign} /\ KeysUsable)
                => pcall.ret.err = PgpNoErr
        /\ pcfg.c.Action \notin {ActionEncrypt, ActionEncryptAndSign, ActionSign}
                => pcall.ret.err # PgpNoErr
        /\ (pcfg.c.Action = ActionEncrypt /\ pcfg.c.PublicKey = "")
                => pcall.ret.err # PgpNoErr

\* C15: with the inline scheme and an encrypting action, after Handle returns
\* no body part, embed or attachment still holds its unencrypted content:
\* each one is encrypted or removed. (Stated for messages whose parts and
\* files can all be read.)
C15_InlineLeavesNoClearContent ==
    (/\ InlineReturned
     /\ pcfg.c.Action \in {ActionEncrypt, ActionEncryptAndSign}
     /\ Writable(pcall.pre)) =>
        /\ \A i \in 1..Len(pmsg.parts) :
                pmsg.parts[i].del \/ pmsg.parts[i].content.form # "clear"
        /\ \A i \in 1..Len(pmsg.embeds) : pmsg.embeds[i].content.form # "clear"
        /\ \A i \in 1..Len(pmsg.attachments) : pmsg.attachments[i].content.form # "clear"

\* pgpMIME has returned without a log call for an encrypting action: every
\* path on which it fails logs an error
MIMEEncryptSucceeded ==
    /\ pcall.op = "pgpMIME"
    /\ ~pcall.panic
    /\ pcall.logs = <<>>
    /\ pcfg.c.Action \in {ActionEncrypt, ActionEncryptAndSign}

\* C20: when pgpMIME succeeds with ActionEncrypt or ActionEncryptAndSign,
\* every previous body part is deleted, the previous embeds and attachments
\* are cleared, exactly one part of type application/pgp-encrypted with
\* content "Version: 1" is added, exactly one embed, named encrypted.asc,
\* holds the encrypted payload, and the PGP type is PGPEncrypt.
C20_MIMEEncryptReplacesAll ==
    MIMEEncryptSucceeded =>
        LET n == Len(pcall.pre.parts)
        IN  /\ Len(pmsg.parts) = n + 1
            /\ \A i \in 1..n : pmsg.parts[i].del
            /\ ~pmsg.parts[n + 1].del
            /\ pmsg.parts[n + 1].ctype = TypePGPEncrypted
            /\ pmsg.parts[n + 1].content = Clear(<<"Version: 1">>)
            /\ pmsg.attachments = <<>>
            /\ Len(pmsg.embeds) = 1
            /\ pmsg.embeds[1].name = "encrypted.asc"
            /\ pmsg.embeds[1].content.form \in {FormEncrypted, FormEncryptedSigned}
            /\ pmsg.embeds[1].content.text = pcall.d
            /\ pmsg.pgptype = PGPEncrypt

\* pgpMIME has encrypted a message that had a body part, an embed and an
\* attachment
C20_Witness ==
    /\ MIMEEncryptSucceeded
    /\ pmsg.pgptype = PGPEncrypt
    /\ Len(pcall.pre.parts) > 0
    /\ Len(pcall.pre.embeds) > 0
    /\ Len(pcall.pre.attachments) > 0

(* Properties of the Logger *)

\* a method of the Logger has been called since the level was last set
LogCalled == lg.made /\ lg.call.method # "none"

\* the lines the last call added to the output
LogWritten == SubSeq(lg.out, lg.call.before + 1, Len(lg.out))

\* the number of newlines in a line
RECURSIVE CountLF(_)
CountLF(s) == IF s = <<>> THEN 0 ELSE (IF Head(s) = LF THEN 1 ELSE 0) + CountLF(Tail(s))

\* the level a method needs, as the documentation of the Level constants
\* gives it
NeededLevel(method) ==
    CASE method \in {"Debug", "Debugf"} -> 3
      [] method \in {"Info", "Infof"} -> 2
      [] method \in {"Warn", "Warnf"} -> 1
      [] method \in {"Error", "Errorf"} -> 0

\* C16: a method call on a Logger of level L writes only if L is at least
\* the level of the method (Debug 3, Info 2, Warn 1, Error 0); a suppressed
\* call adds nothing to the output and an enabled call adds exactly one
\* line: one write that holds one newline, at its end.
C16_LevelGating ==
    LogCalled =>
        IF lg.l >= NeededLevel(lg.call.method)
        THEN /\ Len(LogWritten) = 1
             /\ CountLF(LogWritten[1]) = 1
             /\ LogWritten[1][Len(LogWritten[1])] = LF
        ELSE LogWritten = <<>>

\* C16 witness: a Warn call suppressed at LevelError, after an earlier call
\* wrote one line
C16_Witness ==
    /\ LogCalled
    /\ lg.call.method = "Warn"
    /\ lg.l = LevelError
    /\ Len(lg.out) = 1
    /\ lg.call.before = 1

\* the name of the severity of a method
LevelName(method) ==
    CASE method \in {"Debug", "Debugf"} -> <<"D", "E", "B", "U", "G">>
      [] method \in {"Info", "Infof"} -> <<"I", "N", "F", "O">>
      [] method \in {"Warn", "Warnf"} -> <<"W", "A", "R", "N">>
      [] method \in {"Error", "Errorf"} -> <<"E", "R", "R", "O", "R">>

\* s ends with e
HasSuffix(s, e) == Len(s) >= Len(e) /\ SubSeq(s, Len(s) - Len(e) + 1, Len(s)) = e

\* the end of the line the claim describes, for a message without a newline
\* of its own
ExpectedLine(p, method, s) ==
    <<"[">> \o p \o <<"]", SP>> \o LevelName(method) \o <<":", SP>> \o s \o <<LF>>

\* C17: every line the Logger writes ends with "[<prefix>] <LEVEL>: <message>"
\* and a newline, <prefix> being the prefix handed to New and <LEVEL> the
\* severity of the method called, the same for the plain and the formatted
\* method; Error and Errorf both write ERROR.
C17_LineFormat ==
    (LogCalled /\ LogWritten # <<>> /\ CountLF(lg.call.s) = 0) =>
        HasSuffix(LogWritten[1], ExpectedLine(lg.p, lg.call.method, lg.call.s))

(* Properties of the subject capitalization middleware *)

\* the Handle calls of the subcap middleware made by WriteTo
SubcapCalls == {i \in 1..Len(trace) : trace[i].mw.type = "subcap"}

\* C18: Handle of the subcap middleware, applied to a message without a
\* Subject header, returns the message unchanged and does not fail: the
\* message is written.
C18_HandleWithoutSubject ==
    \A i \in SubcapCalls :
        trace[i].pre.subject = <<>> =>
            /\ ~trace[i].panic
            /\ trace[i].post = trace[i].pre
            /\ out.done /\ ~out.panic

\* the subjects a message can carry: those set with msg.Subject and their
\* title-cased forms
SubjectTexts == Subjects \cup {Title(sub) : sub \in Subjects}

\* C19: Handle of the subcap middleware replaces the subject by the
\* title-cased form of the subject that is set, leaves every other header
\* and the body as they are, and applied to its own result changes nothing.
C19_HandleTitleCases ==
    \A i \in SubcapCalls :
        ~trace[i].panic =>
            /\ \A sub \in SubjectTexts :
                  trace[i].pre.subject = Subject(NewMsg, sub).subject =>
                      trace[i].post.subject = Subject(NewMsg, Title(sub)).subject
            /\ [trace[i].post EXCEPT !.subject = trace[i].pre.subject] = trace[i].pre
            /\ SubcapHandle(trace[i].post).m = trace[i].post
-----------------------------------------------------------------------------
(* Properties of pgpMIME and of the Config it runs with *)

\* pgpMIME has returned without a log call for ActionSign: every path on
\* which it fails logs an error
MIMESignSucceeded ==
    /\ pcall.op = "pgpMIME"
    /\ ~pcall.panic
    /\ pcall.logs = <<>>
    /\ pcfg.c.Action = ActionSign

\* C21: when pgpMIME succeeds with ActionSign, the body parts, the embeds
\* and the attachments the message had are left as they were, exactly one
\* attachment, named signature.asc and holding the detached signature of
\* the text handed to signPlainDetached, is added, and the PGP type is
\* PGPSignature.
C21_MIMESignAddsSignature ==
    MIMESignSucceeded =>
        LET n == Len(pcall.pre.attachments)
        IN  /\ pmsg.parts = pcall.pre.parts
            /\ pmsg.embeds = pcall.pre.embeds
            /\ Len(pmsg.attachments) = n + 1
            /\ SubSeq(pmsg.attachments, 1, n) = pcall.pre.attachments
            /\ \A i \in 1..n : pmsg.attachments[i].name # "signature.asc"
            /\ pmsg.attachments[n + 1].name = "signature.asc"
            /\ pmsg.attachments[n + 1].content.form = FormDetachedSignature
            /\ pmsg.attachments[n + 1].content.text = pcall.d
            /\ pmsg.pgptype = PGPSignature

\* pgpMIME has signed a message that had a body part, an embed and an
\* attachment
C21_Witness ==
    /\ MIMESignSucceeded
    /\ pmsg.pgptype = PGPSignature
    /\ Len(pcall.pre.parts) > 0
    /\ Len(pcall.pre.embeds) > 0
    /\ Len(pcall.pre.attachments) > 0

\* pgpMIME has written the message and has reached the switch on the
\* action with one of the three actions
MIMEProcessed ==
    /\ pcall.op = "pgpMIME"
    /\ ~pcall.panic
    /\ Writable(pcall.pre)
    /\ \A i \in 1..Len(pcall.logs) :
            pcall.logs[i].text # "failed to read mail body into memory"
    /\ pcall.pre.pgptype = NoPGP
    /\ pcfg.c.Action \in {ActionEncrypt, ActionEncryptAndSign, ActionSign}

\* the lines of the body parts that are written and of the attachments
RECURSIVE ContentLines(_)
ContentLines(xs) ==
    IF xs = <<>> THEN {}
    ELSE {DataLines(Head(xs).content)[i] : i \in 1..Len(DataLines(Head(xs).content))}
         \cup ContentLines(Tail(xs))

\* C22: the text pgpMIME hands to processPlain or signPlainDetached is the
\* rendered body of the message: it holds the lines of every body part and
\* of every attachment, and it is not empty when the message has a body
\* part, whether or not the message is written as multipart/mixed.
C22_MailBodyIsRenderedBody ==
    MIMEProcessed =>
        /\ ContentLines(LiveParts(pcall.pre)) \cup ContentLines(pcall.pre.attachments)
                \subseteq {pcall.d[i] : i \in 1..Len(pcall.d)}
        /\ LiveParts(pcall.pre) # <<>> => pcall.d # <<>>

\* pgpMIME has failed: it has logged an error, or the log call itself has
\* failed
MIMEFailed ==
    /\ pcall.op = "pgpMIME"
    /\ pcall.panic \/ pcall.logs # <<>>

\* C23: when pgpMIME fails at any step (writing the message, reading what
\* was written, encrypting, signing), the message has its body parts, its
\* embeds, its attachments and its PGP type exactly as on entry.
C23_MIMEFailureLeavesMessage ==
    MIMEFailed =>
        /\ pmsg.parts = pcall.pre.parts
        /\ pmsg.embeds = pcall.pre.embeds
        /\ pmsg.attachments = pcall.pre.attachments
        /\ pmsg.pgptype = pcall.pre.pgptype

\* processPlain has failed in pgpMIME, for a message with a body part, an
\* embed and an attachment, and the error has been logged
C23_Witness ==
    /\ MIMEFailed
    /\ pcall.logs = <<LogCall("Errorf", "failed to encrypt message part")>>
    /\ pcfg.c.Action \in {ActionEncrypt, ActionEncryptAndSign}
    /\ Len(pcall.pre.parts) > 0
    /\ Len(pcall.pre.embeds) > 0
    /\ Len(pcall.pre.attachments) > 0

\* C24: every Config NewConfig returns, alone or together with an error,
\* has a Logger that is not nil, and Handle and pgpMIME of a Middleware
\* built from it log without failing.
C24_ReturnedConfigHasLogger ==
    pcfg.made =>
        /\ pcfg.c.Logger # NilLogger
        /\ PgpHandled => ~pcall.panic

=============================================================================
